---- MODULE Spec2Model ----
(***************************************************************************)
(* cmd_srv (src/server.py): a FastAPI application that runs pre-authored   *)
(* shell command templates.  The model covers the registry COMMANDS, the   *)
(* handler execute_command (step by step, in source order), the handler    *)
(* get_commands, the single event loop on which both run, and the child    *)
(* process that subprocess.run starts and waits for.  The log sink, the    *)
(* /logs page and the tray icon are left out: no step of execute_command   *)
(* reads them.  The detail of a 500 is given as the name of the exception  *)
(* whose str(e) the code sends.                                            *)
(***************************************************************************)
EXTENDS Integers, Sequences, FiniteSets, TLC

(* ------------------------------ bounds -------------------------------- *)

\* Requests that may be in flight (accepted, not yet answered) together.
NumReq == 2

\* Processes the command interpreter may have running under it at a time.
MaxKids == 1

\* subprocess.run(..., timeout=30): the fixed bound on a run, in time units.
Timeout == 30

Slots == 1..NumReq

\* The event loop runs no handler.
NoOwner == 0

(* --------------------------- JSON values ------------------------------ *)

\* A JSON value as Python holds it after json(): a str, None, or a list.
Str(s) == [t |-> "str", s |-> s]
None == [t |-> "null", s |-> ""]
AList == [t |-> "list", s |-> "a"]

\* str(v), which str.format applies to a value it substitutes.
PyStr(v) ==
  IF v.t = "str" THEN v.s
  ELSE IF v.t = "null" THEN "None"
  ELSE "['" \o v.s \o "']"

\* Falsy, were the test `cmd_name is None`.
FalsyNoneOnly(v) == v.t = "null"

\* `not v`: None, the empty string (an AList is a non-empty list).
Falsy(v) == v.t = "null" \/ (v.t = "str" /\ v.s = "")

\* Whether hash(v) succeeds: `v in COMMANDS` raises TypeError on a list.
Hashable(v) == v.t # "list"

(* ----------------------------- templates ------------------------------ *)

\* A template string as str.format reads it: literal text and {name} fields.
Lit(s) == [ph |-> FALSE, s |-> s]
Ph(n) == [ph |-> TRUE, s |-> n]

\* A configured value: a plain template string, or a record with "cmd" and
\* "description" (the two shapes get_commands tells apart).
Plain(tpl) == [t |-> "str", cmd |-> tpl, description |-> ""]
Record(tpl, d) == [t |-> "dict", cmd |-> tpl, description |-> d]

\* The configuration json.load returns at import time.
Config ==
  [c \in {"up", "echo", "rev", "self", "rec"} |->
     CASE c = "up" -> Plain(<<Lit("uptime")>>)
       [] c = "echo" -> Plain(<<Lit("echo "), Ph("x"), Lit(" "), Ph("y")>>)
       [] c = "rev" -> Plain(<<Lit("rev "), Ph("y"), Lit(" "), Ph("x")>>)
       [] c = "self" -> Plain(<<Lit("echo "), Ph("command")>>)
       [] c = "rec" -> Record(<<Lit("ls "), Ph("x")>>, "list a directory")]

\* The {name} fields of a template in order, as re.findall(r"\{(\w+)\}", ...)
\* lists them for the /commands page.
RECURSIVE Placeholders(_)
Placeholders(tpl) ==
  IF tpl = <<>> THEN <<>>
  ELSE (IF Head(tpl).ph THEN <<Head(tpl).s>> ELSE <<>>) \o Placeholders(Tail(tpl))

\* The template as the text the configuration holds.
RECURSIVE Render(_)
Render(tpl) ==
  IF tpl = <<>> THEN ""
  ELSE (IF Head(tpl).ph THEN "{" \o Head(tpl).s \o "}" ELSE Head(tpl).s)
         \o Render(Tail(tpl))

\* str.format(**args) from field k on, acc being the text produced so far:
\* fields are looked up left to right and the first absent one raises
\* KeyError(name); a value is substituted as str(value), unescaped.
RECURSIVE FormatFrom(_, _, _, _)
FormatFrom(tpl, args, k, acc) ==
  IF k > Len(tpl) THEN [r |-> "ok", v |-> acc]
  ELSE IF ~tpl[k].ph THEN FormatFrom(tpl, args, k + 1, acc \o tpl[k].s)
  ELSE IF tpl[k].s \in DOMAIN args
    THEN FormatFrom(tpl, args, k + 1, acc \o PyStr(args[tpl[k].s]))
    ELSE [r |-> "KeyError", v |-> tpl[k].s]

\* Format, were an argument that no field names an error.
FormatStrict(entry, args) ==
  IF entry.t = "dict" THEN [r |-> "AttributeError", v |-> "format"]
  ELSE IF \E k \in DOMAIN args : \A n \in 1..Len(entry.cmd) :
            ~(entry.cmd[n].ph /\ entry.cmd[n].s = k)
    THEN [r |-> "KeyError", v |-> "unused"]
    ELSE FormatFrom(entry.cmd, args, 1, "")

\* cmd_template.format(**args) on the configured value itself: a dict has no
\* attribute format.
Format(entry, args) ==
  IF entry.t = "dict" THEN [r |-> "AttributeError", v |-> "format"]
  ELSE FormatFrom(entry.cmd, args, 1, "")

\* template.get("cmd", "") for a record, the value itself for a string.
TemplateStr(entry) == entry.cmd

\* desc or template_str: what the /commands page prints under a command.
Shown(entry) ==
  IF entry.t = "dict" /\ entry.description # "" THEN entry.description
  ELSE Render(TemplateStr(entry))

\* The body of the /commands page: each command, its arguments, its text.
Listing(reg) ==
  [c \in DOMAIN reg |->
     [args |-> Placeholders(TemplateStr(reg[c])), desc |-> Shown(reg[c])]]

(* ------------------------------ requests ------------------------------ *)

Empty == [k \in {} |-> None]

CommandVals ==
  {None, Str(""), Str("up"), Str("echo"), Str("rev"), Str("self"),
   Str("rec"), Str("nope"), AList}

\* The values a request may carry under each key.
ValsOf(k) ==
  CASE k = "command" -> CommandVals
    [] k = "x" -> {Str("a")}
    [] k = "y" -> {Str("b")}
    [] k = "z" -> {None}

AllKeys == {"command", "x", "y", "z"}

ObjMaps ==
  UNION {{m \in [D -> CommandVals \cup {Str("a"), Str("b")}] :
            \A k \in D : m[k] \in ValsOf(k)} : D \in SUBSET AllKeys}

\* What request.json() may return: a JSON object, or a JSON array.
Bodies ==
  {[obj |-> TRUE, map |-> m] : m \in ObjMaps} \cup {[obj |-> FALSE, map |-> Empty]}

NoBody == [obj |-> FALSE, map |-> Empty]

\* data.get("command"): None when the key is absent.
Get(map, k) == IF k \in DOMAIN map THEN map[k] ELSE None

\* {k: v for k, v in data.items() if k != "command"}
ArgsOf(map) == [k \in DOMAIN map \ {"command"} |-> map[k]]

\* cmd_name in COMMANDS, for a hashable cmd_name (the keys are strings).
InRegistry(reg, v) == v.t = "str" /\ v.s \in DOMAIN reg

(* ------------------------------- state -------------------------------- *)

VARIABLES
  COMMANDS,      \* the registry, loaded at import
  loop,          \* the slot whose handler the event loop is running, or NoOwner
  pc,            \* each slot's position in its handler
  kind,          \* each slot's endpoint: "execute" or "commands"
  data,          \* execute_command's local data
  cmd_name,      \* execute_command's local cmd_name
  cmd_template,  \* execute_command's local cmd_template
  cmd_str,       \* execute_command's local cmd_str
  shell,         \* the command interpreter subprocess.run started
  kids,          \* processes running under that interpreter, holding its pipes
  elapsed,       \* time units since subprocess.run started the interpreter
  outcome,       \* what the handler returned or raised
  trace,         \* the steps the handler has taken, in order
  spawned,       \* interpreters the handler has started
  page           \* the listing get_commands has built

vars ==
  <<COMMANDS, loop, pc, kind, data, cmd_name, cmd_template, cmd_str, shell,
    kids, elapsed, outcome, trace, spawned, page>>

locals == <<data, cmd_name, cmd_template, cmd_str, page>>
process == <<shell, kids, elapsed, spawned>>

NoEntry == Plain(<<>>)
NoShell == [st |-> "none", rc |-> 0, out |-> "", err |-> "", text |-> TRUE]
NoPayload == [status |-> "", stdout |-> "", stderr |-> "", returncode |-> 0]
NoOutcome == [kind |-> "none", status |-> 0, detail |-> "", body |-> NoPayload]

\* raise HTTPException(status_code=status, detail=detail)
Http(status, detail) ==
  [kind |-> "http", status |-> status, detail |-> detail, body |-> NoPayload]

\* An exception no except clause of the handler catches.
Escaped(exc) ==
  [kind |-> "escaped", status |-> 500, detail |-> exc, body |-> NoPayload]

\* The dict execute_command returns after a completed run.
Payload(rc, out, err) ==
  [kind |-> "payload", status |-> 200, detail |-> "",
   body |-> [status |-> IF rc = 0 THEN "success" ELSE "error",
             stdout |-> out, stderr |-> err, returncode |-> rc]]

\* The HTMLResponse get_commands returns.
Html(status) ==
  [kind |-> "html", status |-> status, detail |-> "", body |-> NoPayload]

\* How a child may end: exit code, standard output, standard error.
Exits == {<<0, "hi", "">>, <<2, "", "oops">>}

Init ==
  /\ COMMANDS = Config
  /\ loop = NoOwner
  /\ pc = [i \in Slots |-> "idle"]
  /\ kind = [i \in Slots |-> "execute"]
  /\ data = [i \in Slots |-> NoBody]
  /\ cmd_name = [i \in Slots |-> None]
  /\ cmd_template = [i \in Slots |-> NoEntry]
  /\ cmd_str = [i \in Slots |-> ""]
  /\ shell = [i \in Slots |-> NoShell]
  /\ kids = [i \in Slots |-> 0]
  /\ elapsed = [i \in Slots |-> 0]
  /\ outcome = [i \in Slots |-> NoOutcome]
  /\ trace = [i \in Slots |-> <<>>]
  /\ spawned = [i \in Slots |-> 0]
  /\ page = [i \in Slots |-> Empty]

(* ----------------------------- event loop ----------------------------- *)

\* The loop can resume a handler only when it is running none: a handler keeps
\* the loop from one await to the next, and a call that blocks keeps it too.
LoopFree == loop = NoOwner

\* The handler of slot i ends with outcome o; the loop is its until Respond.
Finish(i, o, step) ==
  /\ outcome' = [outcome EXCEPT ![i] = o]
  /\ trace' = [trace EXCEPT ![i] = Append(@, step)]
  /\ pc' = [pc EXCEPT ![i] = "done"]

\* A client's request for endpoint k is accepted and queued on the loop.
Arrive(i, k) ==
  /\ pc[i] = "idle"
  /\ pc' = [pc EXCEPT ![i] = "queued"]
  /\ kind' = [kind EXCEPT ![i] = k]
  /\ UNCHANGED <<COMMANDS, loop, locals, process, outcome, trace>>

(* --------------------------- execute_command -------------------------- *)

\* data = await request.json(); cmd_name = data.get("command")
ReadJson(i, body) ==
  /\ pc[i] = "queued" /\ kind[i] = "execute"
  /\ LoopFree
  /\ loop' = i
  /\ IF body.obj
       THEN /\ data' = [data EXCEPT ![i] = body]
            /\ cmd_name' = [cmd_name EXCEPT ![i] = Get(body.map, "command")]
            /\ pc' = [pc EXCEPT ![i] = "received"]
            /\ trace' = [trace EXCEPT ![i] = <<"json">>]
            /\ UNCHANGED outcome
       ELSE /\ Finish(i, Escaped("AttributeError"), "json")
            /\ UNCHANGED <<data, cmd_name>>
  /\ UNCHANGED <<COMMANDS, kind, cmd_template, cmd_str, page, process>>

\* if not cmd_name: raise HTTPException(400, "Missing 'command' field")
CheckName(i) ==
  /\ pc[i] = "received" /\ loop = i
  /\ IF Falsy(cmd_name[i])
       THEN Finish(i, Http(400, "Missing 'command' field"), "check")
       ELSE /\ pc' = [pc EXCEPT ![i] = "named"]
            /\ trace' = [trace EXCEPT ![i] = Append(@, "check")]
            /\ UNCHANGED outcome
  /\ UNCHANGED <<COMMANDS, loop, kind, locals, process>>

\* Lookup, were it to replace a record it finds by the record's template.
LookupNormalising(i) ==
  /\ pc[i] = "named" /\ loop = i
  /\ IF ~Hashable(cmd_name[i])
       THEN /\ Finish(i, Escaped("TypeError"), "lookup")
            /\ UNCHANGED <<COMMANDS, cmd_template>>
       ELSE IF ~InRegistry(COMMANDS, cmd_name[i])
         THEN /\ Finish(i, Http(404, "Unknown command"), "lookup")
              /\ UNCHANGED <<COMMANDS, cmd_template>>
         ELSE /\ COMMANDS' = [COMMANDS EXCEPT ![cmd_name[i].s] = Plain(@.cmd)]
              /\ cmd_template' = [cmd_template EXCEPT ![i] = COMMANDS'[cmd_name[i].s]]
              /\ pc' = [pc EXCEPT ![i] = "found"]
              /\ trace' = [trace EXCEPT ![i] = Append(@, "lookup")]
              /\ UNCHANGED outcome
  /\ UNCHANGED <<loop, kind, data, cmd_name, cmd_str, page, process>>

\* if cmd_name not in COMMANDS: raise HTTPException(404, "Unknown command")
\* cmd_template = COMMANDS[cmd_name]
Lookup(i) ==
  /\ pc[i] = "named" /\ loop = i
  /\ IF ~Hashable(cmd_name[i])
       THEN /\ Finish(i, Escaped("TypeError"), "lookup")
            /\ UNCHANGED cmd_template
       ELSE IF ~InRegistry(COMMANDS, cmd_name[i])
         THEN /\ Finish(i, Http(404, "Unknown command"), "lookup")
              /\ UNCHANGED cmd_template
         ELSE /\ cmd_template' = [cmd_template EXCEPT ![i] = COMMANDS[cmd_name[i].s]]
              /\ pc' = [pc EXCEPT ![i] = "found"]
              /\ trace' = [trace EXCEPT ![i] = Append(@, "lookup")]
              /\ UNCHANGED outcome
  /\ UNCHANGED <<COMMANDS, loop, kind, data, cmd_name, cmd_str, page, process>>

\* args = {...}; cmd_str = cmd_template.format(**args), except KeyError:
\* raise HTTPException(400, "Missing argument: <name>")
Resolve(i) ==
  /\ pc[i] = "found" /\ loop = i
  /\ LET f == Format(cmd_template[i], ArgsOf(data[i].map)) IN
       CASE f.r = "ok" ->
              /\ cmd_str' = [cmd_str EXCEPT ![i] = f.v]
              /\ pc' = [pc EXCEPT ![i] = "resolved"]
              /\ trace' = [trace EXCEPT ![i] = Append(@, "resolve")]
              /\ UNCHANGED outcome
         [] f.r = "KeyError" ->
              /\ Finish(i, Http(400, "Missing argument: " \o f.v), "resolve")
              /\ UNCHANGED cmd_str
         [] OTHER ->
              /\ Finish(i, Escaped(f.r), "resolve")
              /\ UNCHANGED cmd_str
  /\ UNCHANGED <<COMMANDS, loop, kind, data, cmd_name, cmd_template, page, process>>

\* subprocess.run(cmd_str, shell=True, ...) starts the command interpreter,
\* or fails to (OSError), which except Exception turns into a 500.
Launch(i, started) ==
  /\ pc[i] = "resolved" /\ loop = i
  /\ IF started
       THEN /\ shell' = [shell EXCEPT ![i] = [NoShell EXCEPT !.st = "running"]]
            /\ spawned' = [spawned EXCEPT ![i] = @ + 1]
            /\ pc' = [pc EXCEPT ![i] = "blocked"]
            /\ trace' = [trace EXCEPT ![i] = Append(@, "run")]
            /\ UNCHANGED outcome
       ELSE /\ Finish(i, Http(500, "OSError"), "run")
            /\ UNCHANGED <<shell, spawned>>
  /\ UNCHANGED <<COMMANDS, loop, kind, locals, kids, elapsed>>

(* ------------------------- the child processes ------------------------ *)

\* subprocess.run is waiting for the interpreter's exit and for the end of its
\* output, and the deadline has not passed.
Waiting(i) == pc[i] = "blocked" /\ elapsed[i] < Timeout

\* The output pipes are at end of file: nothing that holds them is running.
PipesClosed(i) == shell[i].st = "exited" /\ kids[i] = 0

\* The interpreter starts a process of the command line, which inherits the
\* interpreter's output pipes.
ShellSpawn(i) ==
  /\ Waiting(i) /\ shell[i].st = "running" /\ kids[i] < MaxKids
  /\ kids' = [kids EXCEPT ![i] = @ + 1]
  /\ UNCHANGED <<COMMANDS, loop, pc, kind, locals, shell, elapsed, outcome,
                 trace, spawned>>

\* A process under the interpreter ends by itself.
KidExit(i) ==
  /\ Waiting(i) /\ kids[i] > 0
  /\ kids' = [kids EXCEPT ![i] = @ - 1]
  /\ UNCHANGED <<COMMANDS, loop, pc, kind, locals, shell, elapsed, outcome,
                 trace, spawned>>

\* The interpreter exits by itself with a code, having written its output as
\* bytes that are text in the locale's encoding, or are not.
ShellExit(i, e, text) ==
  /\ Waiting(i) /\ shell[i].st = "running"
  /\ shell' = [shell EXCEPT ![i] =
       [st |-> "exited", rc |-> e[1], out |-> e[2], err |-> e[3], text |-> text]]
  /\ UNCHANGED <<COMMANDS, loop, pc, kind, locals, kids, elapsed, outcome,
                 trace, spawned>>

\* A time unit passes while subprocess.run waits.
Tick(i) ==
  /\ Waiting(i) /\ ~PipesClosed(i)
  /\ elapsed' = [elapsed EXCEPT ![i] = @ + 1]
  /\ UNCHANGED <<COMMANDS, loop, pc, kind, locals, shell, kids, outcome,
                 trace, spawned>>

\* Collect, were a run that ends with a non-zero exit code run again.
CollectRetry(i) ==
  /\ Waiting(i) /\ PipesClosed(i) /\ loop = i
  /\ IF shell[i].rc # 0
       THEN /\ pc' = [pc EXCEPT ![i] = "resolved"]
            /\ shell' = [shell EXCEPT ![i] = NoShell]
            /\ elapsed' = [elapsed EXCEPT ![i] = 0]
            /\ UNCHANGED <<outcome, trace>>
       ELSE /\ Finish(i, Payload(shell[i].rc, shell[i].out, shell[i].err), "end")
            /\ UNCHANGED <<shell, elapsed>>
  /\ UNCHANGED <<COMMANDS, loop, kind, locals, kids, spawned>>

\* subprocess.run returns a CompletedProcess once the interpreter has exited
\* and its output has ended; text=True decodes the output, and bytes that do
\* not decode raise UnicodeDecodeError, which except Exception turns into a
\* 500.  Otherwise the handler returns the result dict.
Collect(i) ==
  /\ Waiting(i) /\ PipesClosed(i) /\ loop = i
  /\ IF shell[i].text
       THEN Finish(i, Payload(shell[i].rc, shell[i].out, shell[i].err), "end")
       ELSE Finish(i, Http(500, "UnicodeDecodeError"), "end")
  /\ UNCHANGED <<COMMANDS, loop, kind, locals, process>>

\* What process.kill() leaves of the interpreter: it signals that one process.
Killed(sh) == IF sh.st = "running" THEN [sh EXCEPT !.st = "killed"] ELSE sh

\* The processes under the interpreter that are left running by the kill.
KidsAfterKill(n) == n

\* The deadline passes: subprocess.run kills the interpreter, waits for it and
\* raises TimeoutExpired, which except Exception turns into a 500.
TimeoutExpire(i) ==
  /\ pc[i] = "blocked" /\ elapsed[i] = Timeout /\ loop = i
  /\ shell' = [shell EXCEPT ![i] = Killed(@)]
  /\ kids' = [kids EXCEPT ![i] = KidsAfterKill(@)]
  /\ Finish(i, Http(500, "TimeoutExpired"), "end")
  /\ UNCHANGED <<COMMANDS, loop, kind, locals, elapsed, spawned>>

(* ----------------------------- get_commands --------------------------- *)

\* The whole handler: it has no await, so it runs in one turn of the loop.
GetCommands(i) ==
  /\ pc[i] = "queued" /\ kind[i] = "commands"
  /\ LoopFree
  /\ loop' = i
  /\ page' = [page EXCEPT ![i] = Listing(COMMANDS)]
  /\ Finish(i, Html(200), "list")
  /\ UNCHANGED <<COMMANDS, kind, data, cmd_name, cmd_template, cmd_str, process>>

(* ------------------------------- response ----------------------------- *)

\* The handler's frame is gone and the response is sent: the loop is free.
\* Processes the handler left behind are no longer followed.
Respond(i) ==
  /\ pc[i] = "done" /\ loop = i
  /\ loop' = NoOwner
  /\ pc' = [pc EXCEPT ![i] = "idle"]
  /\ data' = [data EXCEPT ![i] = NoBody]
  /\ cmd_name' = [cmd_name EXCEPT ![i] = None]
  /\ cmd_template' = [cmd_template EXCEPT ![i] = NoEntry]
  /\ cmd_str' = [cmd_str EXCEPT ![i] = ""]
  /\ page' = [page EXCEPT ![i] = Empty]
  /\ shell' = [shell EXCEPT ![i] = NoShell]
  /\ kids' = [kids EXCEPT ![i] = 0]
  /\ elapsed' = [elapsed EXCEPT ![i] = 0]
  /\ spawned' = [spawned EXCEPT ![i] = 0]
  /\ outcome' = [outcome EXCEPT ![i] = NoOutcome]
  /\ trace' = [trace EXCEPT ![i] = <<>>]
  /\ kind' = [kind EXCEPT ![i] = "execute"]
  /\ UNCHANGED COMMANDS

Next ==
  \E i \in Slots :
    \/ \E k \in {"execute", "commands"} : Arrive(i, k)
    \/ \E body \in Bodies : ReadJson(i, body)
    \/ CheckName(i)
    \/ Lookup(i)
    \/ Resolve(i)
    \/ \E started \in BOOLEAN : Launch(i, started)
    \/ ShellSpawn(i)
    \/ KidExit(i)
    \/ \E e \in Exits, text \in BOOLEAN : ShellExit(i, e, text)
    \/ Tick(i)
    \/ Collect(i)
    \/ TimeoutExpire(i)
    \/ GetCommands(i)
    \/ Respond(i)

Spec == Init /\ [][Next]_vars

(* ------------------------------- claims ------------------------------- *)

\* An execute_command call that has returned or raised.
Done(i) == pc[i] = "done" /\ kind[i] = "execute"

\* An execute_command call that has returned or raised on a JSON object.
Dispatched(i) == Done(i) /\ data[i].obj

\* The value under the request's `command` key, None when there is none.
Named(i) == Get(data[i].map, "command")

\* The call has invoked subprocess.run.
Ran(i) == \E n \in 1..Len(trace[i]) : trace[i][n] = "run"

\* The names in sequence phs that are not in keys, in order.
RECURSIVE Missing(_, _)
Missing(phs, keys) ==
  IF phs = <<>> THEN <<>>
  ELSE (IF Head(phs) \in keys THEN <<>> ELSE <<Head(phs)>>) \o Missing(Tail(phs), keys)

\* The placeholders of the registered command the request names.
Wanted(i) == Placeholders(TemplateStr(Config[Named(i).s]))

\* C1 (as claimed): every request whose `command` value is not a key of the
\* registry, an absent, null or empty one included, ends in the 404
\* UnknownCommand, and no child process is launched.
C1_Claimed ==
  \A i \in Slots :
    (Dispatched(i) /\ ~(Named(i).t = "str" /\ Named(i).s \in DOMAIN Config))
      => /\ outcome[i] = Http(404, "Unknown command")
         /\ spawned[i] = 0 /\ ~Ran(i)

\* C1 (amended): a request whose `command` is a non-empty string that is not a
\* key of the registry ends in the 404 UnknownCommand; a request whose
\* `command` is absent, null or the empty string ends in the 400 rejection
\* "Missing 'command' field"; in both cases no child process is launched.
C1_UnknownOrMissing ==
  \A i \in Slots :
    Dispatched(i) =>
      /\ (Named(i) \in {None, Str("")})
           => /\ outcome[i] = Http(400, "Missing 'command' field")
              /\ spawned[i] = 0 /\ ~Ran(i)
      /\ (Named(i).t = "str" /\ Named(i).s # "" /\ Named(i).s \notin DOMAIN Config)
           => /\ outcome[i] = Http(404, "Unknown command")
              /\ spawned[i] = 0 /\ ~Ran(i)

\* A dispatch of an unregistered, non-empty name has ended.
C1_Witness ==
  \E i \in Slots :
    Dispatched(i) /\ Named(i) = Str("nope") /\ outcome[i].status = 404

\* C2 (as claimed): a request that names a registered command and lacks a key
\* for one of its template's placeholders ends in the 400 MissingArgument
\* naming the first such placeholder in template order, and launches nothing.
C2_Claimed ==
  \A i \in Slots :
    (/\ Dispatched(i) /\ InRegistry(Config, Named(i))
     /\ Missing(Wanted(i), DOMAIN data[i].map) # <<>>)
      => /\ outcome[i] =
              Http(400, "Missing argument: " \o Head(Missing(Wanted(i), DOMAIN data[i].map)))
         /\ spawned[i] = 0 /\ ~Ran(i)

\* C3 (as claimed): a request that names a registered command, string or
\* record, and has a key for every placeholder of its template never ends in
\* MissingArgument: a command line is resolved and the run is started.
C3_Claimed ==
  \A i \in Slots :
    (/\ Dispatched(i) /\ InRegistry(Config, Named(i))
     /\ Missing(Wanted(i), DOMAIN data[i].map) = <<>>)
      => /\ Ran(i)
         /\ ~(outcome[i].kind = "http" /\ outcome[i].status = 400)

\* The argument mappings resolution is compared on.
ArgMaps == UNION {[D -> {Str("a"), Str("b")}] : D \in SUBSET {"x", "y", "z"}}

\* Mappings a and b agree on every key the template's placeholders name.
Agree(tpl, a, b) ==
  \A n \in 1..Len(tpl) :
    tpl[n].ph =>
      /\ (tpl[n].s \in DOMAIN a) = (tpl[n].s \in DOMAIN b)
      /\ (tpl[n].s \in DOMAIN a) => a[tpl[n].s] = b[tpl[n].s]

\* What the resolution of dispatch i came to, read from its state.
Resolution(i) ==
  IF Ran(i) \/ pc[i] = "resolved" THEN [r |-> "ok", v |-> cmd_str[i]]
  ELSE IF outcome[i].kind = "escaped" THEN [r |-> outcome[i].detail, v |-> "format"]
  ELSE [r |-> "KeyError", v |-> outcome[i].detail]

\* What a resolution outcome would make of a dispatch.
Expected(f) ==
  IF f.r = "KeyError" THEN [f EXCEPT !.v = "Missing argument: " \o f.v] ELSE f

\* The handler has carried out the resolution step.
PastResolve(i) ==
  /\ kind[i] = "execute"
  /\ \E n \in 1..Len(trace[i]) : trace[i][n] = "resolve"

\* C4: resolution is invariant under extra arguments: whatever a dispatch's
\* resolution came to (a command line, or the missing name), every argument
\* mapping that agrees with the request's on the keys the template's
\* placeholders name resolves to the same.
C4_ExtraArgsIgnored ==
  \A i \in Slots :
    PastResolve(i) =>
      \A m \in ArgMaps :
        Agree(cmd_template[i].cmd, ArgsOf(data[i].map), m)
          => Expected(Format(cmd_template[i], m)) = Resolution(i)

\* A request with a key no placeholder names has been resolved to a command line.
C4_Witness ==
  \E i \in Slots :
    /\ PastResolve(i) /\ pc[i] = "resolved"
    /\ "z" \in DOMAIN data[i].map /\ cmd_str[i] = "echo a b"

\* C5 (as claimed): whenever the child exits normally, with any exit code, the
\* dispatch returns a result payload with that code and the child's output,
\* whose status is "success" exactly when the code is 0.
C5_Claimed ==
  \A i \in Slots :
    (Done(i) /\ shell[i].st = "exited")
      => /\ outcome[i].kind = "payload"
         /\ outcome[i].body.returncode = shell[i].rc
         /\ outcome[i].body.stdout = shell[i].out
         /\ outcome[i].body.stderr = shell[i].err
         /\ outcome[i].body.status = (IF shell[i].rc = 0 THEN "success" ELSE "error")

\* C6 (as claimed): a dispatch whose run passes the timeout ends in TimedOut,
\* and when it ends neither the interpreter nor any process under it runs.
C6_Claimed ==
  \A i \in Slots :
    (Done(i) /\ elapsed[i] = Timeout)
      => /\ outcome[i] = Http(500, "TimeoutExpired")
         /\ shell[i].st # "running"
         /\ kids[i] = 0

\* C7 (as claimed): while one execute_command call waits for its child, any
\* other queued request can be taken up by the event loop.
C7_Claimed ==
  \A i, j \in Slots :
    (i # j /\ Waiting(i) /\ pc[j] = "queued")
      => ENABLED (GetCommands(j) \/ \E body \in Bodies : ReadJson(j, body))

\* C8: dispatches do not interfere: the registry is in every state the one
\* loaded; a dispatch's command line is its own command's template filled
\* with its own request's arguments; the payload it returns is the exit code
\* and output of its own child.
C8_NoInterference ==
  /\ COMMANDS = Config
  /\ \A i \in Slots :
       /\ (kind[i] = "execute" /\ (Ran(i) \/ pc[i] = "resolved"))
            => cmd_str[i] =
                 FormatFrom(Config[Named(i).s].cmd,
                            [k \in DOMAIN data[i].map \ {"command"} |-> data[i].map[k]],
                            1, "").v
       /\ outcome[i].kind = "payload"
            => /\ outcome[i].body.returncode = shell[i].rc
               /\ outcome[i].body.stdout = shell[i].out
               /\ outcome[i].body.stderr = shell[i].err

\* One dispatch has returned its payload while another request is queued.
C8_Witness ==
  \E i, j \in Slots :
    /\ i # j /\ pc[j] = "queued" /\ kind[j] = "execute"
    /\ Done(i) /\ outcome[i].kind = "payload" /\ cmd_str[i] = "rev b a"

\* The steps of a dispatch that runs to the end of a run, in source order.
Steps == <<"json", "check", "lookup", "resolve", "run", "end">>

\* C9: a dispatch starts at most one child, and only after the name check,
\* the lookup and the resolution, in that order; no outcome starts a second
\* one; a dispatch has an outcome exactly when it has ended.
C9_OnceInOrder ==
  \A i \in Slots :
    kind[i] = "execute" =>
      /\ spawned[i] <= 1
      /\ Len(trace[i]) <= Len(Steps)
      /\ trace[i] = SubSeq(Steps, 1, Len(trace[i]))
      /\ spawned[i] = 1 => Ran(i)
      /\ (pc[i] = "done") = (outcome[i] # NoOutcome)
      /\ (Done(i) /\ Ran(i)) => outcome[i].kind \in {"payload", "http"}

\* A dispatch whose child exited with a non-zero code has ended.
C9_Witness ==
  \E i \in Slots :
    /\ Done(i) /\ spawned[i] = 1
    /\ outcome[i].kind = "payload" /\ outcome[i].body.returncode = 2

\* C10 (as claimed): every dispatch that does not complete a run ends in a
\* classified failure: 400 for a missing command name, before any lookup,
\* 404 for an unrecognized name, 400 for a missing argument, 500 for a launch
\* failure or a timeout; none ends in a failure that escapes the handler.
C10_Claimed ==
  \A i \in Slots :
    (Done(i) /\ outcome[i].kind # "payload")
      => /\ outcome[i].kind = "http"
         /\ (trace[i] = SubSeq(Steps, 1, 2)) => outcome[i].status = 400
         /\ (trace[i] = SubSeq(Steps, 1, 3)) => outcome[i].status = 404
         /\ (trace[i] = SubSeq(Steps, 1, 4)) => outcome[i].status = 400
         /\ Ran(i) => outcome[i].status = 500

====
